---- MODULE Spec2Model ----
(***************************************************************************)
(* State-machine model of the static asset plugin (wiajs/static).          *)
(*                                                                         *)
(* The repository holds two revisions of the plugin.  The machine below    *)
(* follows the byte-accounted revision (src/unnamed/part_000): a Map of    *)
(* cache entries with hit counters, an aggregate size counter and a        *)
(* two-threshold cleanup.  Where src/src/index.ts differs and a property   *)
(* depends on it, the difference is modelled by its own definition.        *)
(*                                                                         *)
(* A request handler is an async function.  It is cut at the awaits that   *)
(* wait for the file system (fs.stat, fs.readFile): between two such       *)
(* awaits the handler runs to completion on the single JS thread, so each  *)
(* segment is one action.  Awaits of already-computed values (the digest   *)
(* in Node, an async function's return) only defer to the microtask queue  *)
(* of the same turn and are part of the segment.                           *)
(***************************************************************************)
EXTENDS Integers, Sequences, FiniteSets, TLC

\* ---------------------------------------------------------------- bounds
\* Number of request slots; each slot carries one request.
MaxReqs == 3
\* Total number of file modifications/deletions the environment performs.
MaxMods == 2
\* Number of requests being handled at the same time.
MaxConc == 2

None == "none"

\* ------------------------------------------------------------ file system
\* One configured root and the files under it.
ROOT == "/r"
ReqPaths == {"/a.js", "/b.css"}
FilePaths == {"/r/a.js", "/r/a.js.br", "/r/b.css"}
\* Order in which listFiles enumerates the root.
FileList == <<"/r/a.js", "/r/a.js.br", "/r/b.css">>
\* The files other processes write or remove while the plugin runs.
MutablePaths == {"/r/a.js", "/r/a.js.br"}
\* Sizes a file may take when it is written.
FileSizes == {1, 4}

VARIABLES
  cfg,               \* plugin options, fixed at construction
  fs,                \* disk: path -> [ex, ver, size]; ver doubles as mtimeMs
  mods,              \* number of environment writes so far
  now,               \* Date.now(), observed at the granularity of request arrivals
  cache,             \* Map<string, CacheEntry> as the sequence of <<key, id>> in insertion order
  heap,              \* CacheEntry objects by identity
  currentCacheSize,  \* the aggregate size counter
  prewarm,           \* position of the startup prewarm loop
  req,               \* per request slot: program position and locals
  last,              \* the request that completed in the step just taken, with its response
  lastPass,          \* the call of maybeCleanup in the step just taken
  probe              \* argument and result of a function studied on its own

vars == <<cfg, fs, mods, now, cache, heap, currentCacheSize, prewarm, req, last, lastPass, probe>>

Reqs == 1..MaxReqs
\* An entry object is identified by what created it: request slot r (id r) or
\* prewarm of FileList[i] (id -i).  0 is no object.
NoId == 0
EntryIds == Reqs \cup {-i : i \in 1..Len(FileList)}

\* ------------------------------------------------------------- values
NoStat == [ex |-> FALSE, ver |-> -1, size |-> 0]
NoBody == [path |-> "", ver |-> -1, len |-> 0]
NoTag == [path |-> "", ver |-> -1]
NoSlice == [path |-> "", ver |-> -1, from |-> 0, to |-> 0]
NoRange == [present |-> FALSE, start |-> 0, hasEnd |-> FALSE, end |-> 0]
NoContentRange == [start |-> -1, end |-> -1, size |-> -1]
NoSnap == [body |-> NoBody, etag |-> NoTag, mtimeMs |-> -1, size |-> 0]
\* A CacheEntry.  `written` (history) is what the latest load or refresh of the
\* entry set out to store in body, etag, mtimeMs and size.
NilEntry == [body |-> NoBody, etag |-> NoTag, mtimeMs |-> -1, size |-> 0,
             hits |-> 0, lastAccess |-> 0, prewarmed |-> FALSE, written |-> NoSnap]
\* A response: the status, the headers the claims read (cc is Cache-Control,
\* <<>> when not set), the body, and (history)
\* the entry it was built from, the values read from it, how often the request
\* touched it and the branch of tryServe that produced it.
NoResp == [status |-> 0, etag |-> NoTag, ctype |-> None, cenc |-> None, vary |-> FALSE,
           cc |-> <<>>, custom |-> {},
           crange |-> NoContentRange, clen |-> -1, body |-> NoSlice,
           from |-> NoId, snap |-> NoSnap, written |-> NoSnap, dhits |-> 0, via |-> ""]
NoInm == [kind |-> "absent", tag |-> NoTag]

Min(a, b) == IF a < b THEN a ELSE b

\* String methods, on a string given as the sequence of its characters
startsWith(str, pre) == Len(pre) <= Len(str) /\ SubSeq(str, 1, Len(pre)) = pre
endsWith(str, suf) == Len(suf) <= Len(str) /\ SubSeq(str, Len(str) - Len(suf) + 1, Len(str)) = suf
includes(str, pat) == \E i \in 1..(Len(str) + 1) : startsWith(SubSeq(str, i, Len(str)), pat)

\* ------------------------------------------------------------- helpers
\* cacheKey(p, enc)
cacheKey(p, enc) == IF enc # None THEN p \o "::" \o enc ELSE p

\* `${fullPath}.${enc === 'br' ? 'br' : 'gz'}`
encFullOf(fullPath, enc) == IF enc = None THEN None
                            ELSE fullPath \o (IF enc = "br" THEN ".br" ELSE ".gz")

\* requirePath(root, rel): strip one leading slash, join to the root.
requirePath(root, rel) == root \o rel

\* fs.stat through statSafe: NoStat when the file is absent.
statSafe(disk, p) == IF p \in DOMAIN disk /\ disk[p].ex THEN disk[p] ELSE NoStat

\* fileExists(path)
fileExists(disk, p) == p \in DOMAIN disk /\ disk[p].ex

\* fs.readFile: the content read is the file at its current version; its
\* length is the file's size at that version.
getFile(disk, p) == [path |-> p, ver |-> disk[p].ver, len |-> disk[p].size]

\* generateETag: the digest identifies the content it was computed from.
generateETag(body) == [path |-> body.path, ver |-> body.ver]

\* guessContentType(urlPath), by extension
guessContentType(urlPath) ==
  CASE urlPath = "/a.js" -> "application/javascript; charset=utf-8"
    [] urlPath = "/b.css" -> "text/css; charset=utf-8"
    [] OTHER -> None

\* ------------------------------------------------------------- cache
SeqToSet(s) == {s[i] : i \in 1..Len(s)}
CacheKeys(c) == {c[i][1] : i \in 1..Len(c)}
CacheIds(c) == {c[i][2] : i \in 1..Len(c)}
cacheHas(c, k) == k \in CacheKeys(c)
\* cache.get(key): the entry object's identity
cacheGet(c, k) == IF cacheHas(c, k)
                  THEN (CHOOSE i \in 1..Len(c) : c[i][1] = k)
                  ELSE 0
cacheGetId(c, k) == IF cacheHas(c, k) THEN c[cacheGet(c, k)][2] ELSE NoId
\* cache.delete(key)
cacheDelete(c, k) == SelectSeq(c, LAMBDA e : e[1] # k)
\* cache.set(key, entry): an existing key keeps its place in the iteration order
cacheSet(c, k, id) == IF cacheHas(c, k)
                      THEN [i \in 1..Len(c) |-> IF c[i][1] = k THEN <<k, id>> ELSE c[i]]
                      ELSE Append(c, <<k, id>>)

\* Sum of the sizes of the entries stored in the cache.
RECURSIVE SumSizes(_, _)
SumSizes(c, h) == IF c = <<>> THEN 0 ELSE h[Head(c)[2]].size + SumSizes(Tail(c), h)

\* The comparator of the cleanup sort: hits ascending, then lastAccess ascending.
\* A negative result puts a before b.
compareEntriesLRU(ea, eb) == ea.lastAccess - eb.lastAccess
compareEntries(ea, eb) == IF ea.hits # eb.hits THEN ea.hits - eb.hits
                          ELSE ea.lastAccess - eb.lastAccess

\* Array.prototype.sort with that comparator (stable).
RECURSIVE InsertSorted(_, _, _)
InsertSorted(x, s, h) ==
  IF s = <<>> THEN <<x>>
  ELSE IF compareEntries(h[x[2]], h[Head(s)[2]]) < 0 THEN <<x>> \o s
  ELSE <<Head(s)>> \o InsertSorted(x, Tail(s), h)

RECURSIVE SortEntries(_, _)
SortEntries(c, h) ==
  IF c = <<>> THEN <<>>
  ELSE InsertSorted(c[Len(c)], SortEntries(SubSeq(c, 1, Len(c) - 1), h), h)

\* The for-loop of maybeCleanup over the sorted array.
RECURSIVE CleanupLoop(_, _, _, _, _)
CleanupLoop(arr, c, h, sz, ev) ==
  IF arr = <<>> \/ sz <= cfg.maxSize
  THEN [cache |-> c, size |-> sz, evicted |-> ev, ran |-> TRUE]
  ELSE CleanupLoop(Tail(arr), cacheDelete(c, Head(arr)[1]), h,
                   sz - h[Head(arr)[2]].size, Append(ev, Head(arr)[2]))

\* maybeCleanup()
maybeCleanup(c, h, sz) ==
  IF sz <= cfg.overshoot
  THEN [cache |-> c, size |-> sz, evicted |-> <<>>, ran |-> FALSE]
  ELSE CleanupLoop(SortEntries(c, h), c, h, sz, <<>>)

\* putCache(key, entry) up to its call of maybeCleanup: the counter
putCacheSize(c, h, sz, k, id) ==
  (IF cacheHas(c, k) THEN sz - h[cacheGetId(c, k)].size ELSE sz) + h[id].size

\* putCache(key, entry); the entry object is heap[id]
putCache(c, h, sz, k, id) ==
  maybeCleanup(cacheSet(c, k, id), h, putCacheSize(c, h, sz, k, id))

\* the removal without its size accounting (for comparison)
removeCacheKeepSize(c, h, sz, k) == [cache |-> cacheDelete(c, k), size |-> sz]
\* removeCache(key)
removeCache(c, h, sz, k) ==
  IF cacheHas(c, k)
  THEN [cache |-> cacheDelete(c, k), size |-> sz - h[cacheGetId(c, k)].size]
  ELSE [cache |-> c, size |-> sz]

\* touch(entry)
touch(e, t) == [e EXCEPT !.hits = @ + 1, !.lastAccess = t]


Rank(e) == <<e.hits, e.lastAccess>>
\* Lexicographic order on (hits, lastAccess)
RankLeq(a, b) == a[1] < b[1] \/ (a[1] = b[1] /\ a[2] <= b[2])

\* ------------------------------------------------------------- world
\* The shared cache state a handler segment reads and writes.
NoPass == [called |-> FALSE, ran |-> FALSE, before |-> 0, evicted |-> <<>>, kept |-> {}]
World == [cache |-> cache, heap |-> heap, size |-> currentCacheSize, lastPass |-> NoPass]

\* Install the outcome of putCache or of checkRefresh's update, the counter being
\* `before` when maybeCleanup was called.  The call is recorded: whether the pass
\* ran, the ranks of what it removed, in order, and of what it kept.
Installed(w, h, before, res) ==
  [w EXCEPT !.cache = res.cache, !.heap = h, !.size = res.size,
            !.lastPass = [called |-> TRUE, ran |-> res.ran, before |-> before,
                          evicted |-> [i \in 1..Len(res.evicted) |-> Rank(h[res.evicted[i]])],
                          kept |-> {Rank(h[id]) : id \in CacheIds(res.cache)}]]

Snap(body, et, mt, sz) == [body |-> body, etag |-> et, mtimeMs |-> mt, size |-> sz]
SnapOf(e) == Snap(e.body, e.etag, e.mtimeMs, e.size)

\* ------------------------------------------------------------- request
fullOf(rq) == requirePath(ROOT, rq.path)
encFull(rq) == encFullOf(fullOf(rq), rq.enc)
isHead(rq) == rq.method = "HEAD"
\* staleness checks in every mode (for comparison)
devModeAlways == TRUE
devMode == ~cfg.prewarmEnable

\* If-Modified-Since consulted whenever present (for comparison)
isCachedNeedsStatAlways(rq) == ~rq.noCache /\ rq.ims >= 0
\* isCached(headers, etag, filePath): the part decided without the disk.
isCachedNeedsStat(rq) == ~rq.noCache /\ rq.inm.kind = "absent" /\ rq.ims >= 0
isCachedSync(rq, etag) ==
  IF rq.noCache THEN FALSE
  ELSE IF rq.inm.kind # "absent" THEN rq.inm.kind = "star" \/ rq.inm.tag = etag
  ELSE FALSE
\* ... and the If-Modified-Since comparison against fs.stat(filePath).mtime
isCachedStat(rq, st) == st.ver <= rq.ims

\* parseInt's result for a string without a leading number
NaN == -1

\* The Range branch of buildResponse (Node: the body is a Buffer).
rangeEnd(rg, size) == IF rg.hasEnd THEN rg.end ELSE size - 1
\* the check without its upper bound (for comparison)
rangeValidNoUpper(rg, size) ==
  rg.present /\ rg.start # NaN /\ rangeEnd(rg, size) # NaN /\ rg.start <= rangeEnd(rg, size)
\* !isNaN(start) && !isNaN(end) && start <= end && end < size
rangeValid(rg, size) ==
  /\ rg.present
  /\ rg.start # NaN /\ rangeEnd(rg, size) # NaN
  /\ rg.start <= rangeEnd(rg, size) /\ rangeEnd(rg, size) < size
\* body.subarray(start, end + 1) clamps to the buffer
subarray(body, start, end) ==
  [path |-> body.path, ver |-> body.ver, from |-> Min(start, body.len), to |-> Min(end, body.len)]

\* The options headers, maxAge and directive: one custom header, the defaults.
initialHeaders == {<<"X-Test", "static">>}
maxAge == 86400
directive == "public"
\* 'Cache-Control': maxAge ? `${directive}, max-age=${maxAge}` : directive
cacheControl == IF maxAge # 0 THEN <<directive, "max-age", maxAge>> ELSE <<directive>>

\* buildResponse(entry, urlPath, ..., reqHeaders, enc), after its touch(entry)
buildResponse(e, urlPath, rg, enc) ==
  LET base == [NoResp EXCEPT !.etag = e.etag, !.ctype = guessContentType(urlPath),
                             !.cenc = enc, !.vary = TRUE, !.snap = SnapOf(e),
                             !.cc = cacheControl, !.custom = initialHeaders]
  IN  IF rangeValid(rg, e.size)
      THEN [base EXCEPT !.status = 206,
                        !.crange = [start |-> rg.start, end |-> rangeEnd(rg, e.size), size |-> e.size],
                        !.clen = rangeEnd(rg, e.size) - rg.start + 1,
                        !.body = subarray(e.body, rg.start, rangeEnd(rg, e.size) + 1)]
      ELSE [base EXCEPT !.status = 200, !.body = subarray(e.body, 0, e.body.len)]

\* new Response(null, {status: 304, headers: initialHeaders})
notModified == [NoResp EXCEPT !.status = 304, !.custom = initialHeaders]

\* The HEAD route keeps status and headers and drops the body.
Finish(rq, resp) ==
  [rq EXCEPT !.pc = "done",
             !.resp = IF isHead(rq) THEN [resp EXCEPT !.body = NoSlice] ELSE resp,
             !.ce = NoId, !.ck = "", !.body = NoBody, !.st = NoStat]

Out(w, rq) == [w |-> w, rq |-> rq]

\* touch(ce) at the call site (when callerTouch), then buildResponse with its own touch.
Serve(w, rq, id, enc, t, callerTouch, via) ==
  LET e0 == w.heap[id]
      e1 == IF callerTouch THEN touch(e0, t) ELSE e0
      e2 == touch(e1, t)
      resp == [buildResponse(e2, rq.path, rq.range, enc)
                 EXCEPT !.from = id, !.written = e2.written,
                        !.dhits = e2.hits - e0.hits, !.via = via]
  IN  Out([w EXCEPT !.heap[id] = e2], Finish(rq, resp))

Fail(w, rq, status) == Out(w, Finish(rq, [NoResp EXCEPT !.status = status]))

\* const entry = {body, etag, mtimeMs: st?.mtimeMs, size: st?.size ?? 0, hits: 0, lastAccess, prewarmed}
NewEntry(body, et, st, t, pre) ==
  [body |-> body, etag |-> et, mtimeMs |-> st.ver, size |-> st.size,
   hits |-> 0, lastAccess |-> t, prewarmed |-> pre, written |-> Snap(body, et, st.ver, st.size)]

\* putCache(key, entry) followed by buildResponse(entry, ...)
InsertAndServe(w, rq, key, body, et, st, enc, t, via) ==
  LET id == rq.slot
      h1 == [w.heap EXCEPT ![id] = NewEntry(body, et, st, t, FALSE)]
      res == putCache(w.cache, h1, w.size, key, id)
  IN  Serve(Installed(w, h1, putCacheSize(w.cache, h1, w.size, key, id), res),
            rq, id, enc, t, FALSE, via)

\* The ETag computed for a load: skipped for HEAD and when etag is disabled.
loadETag(rq, body) == IF cfg.useETag /\ ~isHead(rq) THEN generateETag(body) ELSE NoTag

\* 3) Cache miss: the first disk access
missBegin(w, rq) ==
  Out(w, [rq EXCEPT !.pc = IF encFull(rq) # None THEN "cexists" ELSE "sexists",
                    !.ce = NoId, !.ck = ""])

\* the standard hit labelled with the negotiated encoding (for comparison)
stdValidEncoded(w, rq, id, t) == Serve(w, rq, id, rq.enc, t, TRUE, "shit")
\* 2) Cache hit, standard, once the entry is known valid
stdValid(w, rq, id, t) ==
  LET e == w.heap[id] IN
  IF cfg.useETag /\ e.etag # NoTag
  THEN IF isCachedNeedsStat(rq)
       THEN Out(w, [rq EXCEPT !.pc = "scond", !.ce = id])
       ELSE IF isCachedSync(rq, e.etag)
            THEN Out(w, Finish(rq, [notModified EXCEPT !.via = "shit", !.from = id]))
            ELSE Serve(w, rq, id, None, t, TRUE, "shit")
  ELSE Serve(w, rq, id, None, t, TRUE, "shit")

\* 2) Cache hit, standard: the lookup
stdLookup(w, rq, t) ==
  LET ck == cacheKey(fullOf(rq), None) IN
  IF cacheHas(w.cache, ck)
  THEN IF devMode
       THEN Out(w, [rq EXCEPT !.pc = "srstat", !.ce = cacheGetId(w.cache, ck), !.ck = ck])
       ELSE stdValid(w, rq, cacheGetId(w.cache, ck), t)
  ELSE missBegin(w, rq)

\* 1) Cache hit, compressed, once the entry is known valid
compValid(w, rq, id, t) == Serve(w, rq, id, rq.enc, t, TRUE, "chit")

\* tryServe from its start to its first disk access
tryServe(w, rq, t) ==
  LET ck == cacheKey(encFull(rq), rq.enc) IN
  IF encFull(rq) # None /\ cacheHas(w.cache, ck)
  THEN IF devMode
       THEN Out(w, [rq EXCEPT !.pc = "crstat", !.ce = cacheGetId(w.cache, ck), !.ck = ck])
       ELSE compValid(w, rq, cacheGetId(w.cache, ck), t)
  ELSE stdLookup(w, rq, t)

\* checkRefresh: the in-place update of the entry
refreshEntryTorn(e, body, et, st) ==
  [e EXCEPT !.body = body, !.etag = et, !.mtimeMs = st.ver]
refreshEntry(e, body, et, st) ==
  [e EXCEPT !.body = body, !.etag = et, !.mtimeMs = st.ver, !.size = st.size]

\* checkRefresh: size accounting around the update, then maybeCleanup()
commitRefresh(w, id, body, et, st) ==
  LET sz1 == w.size - w.heap[id].size
      h1 == [w.heap EXCEPT ![id] = [refreshEntry(@, body, et, st)
                                      EXCEPT !.written = Snap(body, et, st.ver, st.size)]]
      res == maybeCleanup(w.cache, h1, sz1 + h1[id].size)
  IN  Installed(w, h1, sz1 + h1[id].size, res)


\* ------------------------------------------------------------- actions
IdleReq(r) ==
  [slot |-> r, pc |-> "idle", method |-> "GET", path |-> "", enc |-> None,
   inm |-> NoInm, ims |-> -1, noCache |-> FALSE, range |-> NoRange,
   ce |-> NoId, ck |-> "", body |-> NoBody, st |-> NoStat,
   fresh |-> TRUE, dropped |-> "", resp |-> NoResp]

NoLast == IdleReq(0)
DoneReq(r) == [IdleReq(r) EXCEPT !.pc = "done"]

\* Entry objects nothing refers to any more are dropped (garbage collection).
Collect(h, c, rqs) ==
  [id \in EntryIds |->
     IF id \in CacheIds(c) \/ (\E r \in Reqs : rqs[r].pc # "done" /\ rqs[r].ce = id)
     THEN h[id] ELSE NilEntry]

\* Install a segment's outcome for request slot r.
Commit(r, out) ==
  LET rqs == [req EXCEPT ![r] = IF out.rq.pc = "done" THEN DoneReq(r) ELSE out.rq] IN
  /\ req' = rqs
  /\ last' = IF out.rq.pc = "done" THEN out.rq ELSE NoLast
  /\ cache' = out.w.cache
  /\ heap' = Collect(out.w.heap, out.w.cache, rqs)
  /\ currentCacheSize' = out.w.size
  /\ lastPass' = out.w.lastPass
  /\ UNCHANGED <<probe, cfg, fs, mods, now, prewarm>>

InFlight == {r \in Reqs : req[r].pc \notin {"idle", "done"}}
\* routes registered from the start (for comparison)
ServingFromStart == TRUE
\* The routes exist: staticPlugin has passed its prewarm block and registered them.
Serving == prewarm.pc = "done"

\* An Accept-Encoding value is the sequence of its characters; the word gzip is
\* written as one symbol, in lower or in upper case.  An absent header is <<>>.
AcceptChars == {"b", "B", "r", "R", "gzip", "GZIP", ",", "x"}
toLowerCaseChar(c) ==
  CASE c = "B" -> "b" [] c = "R" -> "r" [] c = "GZIP" -> "gzip" [] OTHER -> c
\* String.prototype.toLowerCase
toLowerCase(str) == [i \in 1..Len(str) |-> toLowerCaseChar(str[i])]

\* the negotiation on the header as sent (for comparison)
negotiateEncodingCaseSensitive(ae) ==
  IF ae = <<>> THEN None
  ELSE IF includes(ae, <<"b", "r">>) THEN "br"
  ELSE IF includes(ae, <<"gzip">>) THEN "gzip"
  ELSE None
\* negotiateEncoding(ae)
negotiateEncoding(ae) ==
  IF ae = <<>> THEN None
  ELSE LET s == toLowerCase(ae) IN
       IF includes(s, <<"b", "r">>) THEN "br"
       ELSE IF includes(s, <<"gzip">>) THEN "gzip"
       ELSE None

\* serveWildcard: preCompressed ? negotiateEncoding(reqHeaders['accept-encoding']) : undefined
encoding(preCompressed, ae) == IF preCompressed THEN negotiateEncoding(ae) ELSE None

AcceptEncodings == {<<>>, <<"b", "r">>}

\* Range headers a client sends: bytes=<start>-<end> and bytes=<start>-
Ranges ==
  {[present |-> TRUE, start |-> a, hasEnd |-> TRUE, end |-> b] : a \in 0..1, b \in {0, 2, 3}}
  \cup {[present |-> TRUE, start |-> 1, hasEnd |-> FALSE, end |-> 0]}

\* The validator a client holds: the ETag of the 200 response it has just received.
Revalidations ==
  IF last.resp.status = 200 /\ last.resp.etag # NoTag
  THEN {[kind |-> "tag", tag |-> last.resp.etag]} ELSE {}

\* The conditional and range headers of a request, by the kind of traffic modelled:
\* plain requests, or requests that revalidate or ask for a byte range.
HeaderChoices ==
  LET plain == [inm |-> NoInm, ims |-> -1, noCache |-> FALSE, range |-> NoRange] IN
  IF cfg.traffic = "plain" THEN {plain}
  ELSE {plain}
       \cup {[plain EXCEPT !.inm = v] : v \in Revalidations}
       \cup {[plain EXCEPT !.ims = 0]}
       \cup {[plain EXCEPT !.range = rg] : rg \in Ranges}

Methods == IF cfg.traffic = "plain" THEN {"GET"} ELSE {"GET", "HEAD"}

\* A client that revalidates repeats the request it has the validator from.
Repeats(m, p, enc, hd) ==
  hd.inm.kind = "tag" => (m = last.method /\ p = last.path /\ enc = last.enc)

\* The locals of serveWildcard for a request that has arrived in slot rq
arrive(rq, m, p, enc, hd) ==
  [rq EXCEPT !.pc = "wstat", !.method = m, !.path = p, !.enc = enc,
             !.inm = hd.inm, !.ims = hd.ims, !.noCache = hd.noCache,
             !.range = hd.range]

\* A request arrives: serveWildcard up to `await statSafe(fs, full)`.
\* Slots are taken in order.  `fresh` (history) holds as long as no file has
\* been written or removed since the request arrived.
Start(r) ==
  /\ Serving
  /\ req[r].pc = "idle"
  /\ \A q \in Reqs : q < r => req[q].pc # "idle"
  /\ Cardinality(InFlight) < cfg.conc
  /\ \E m \in Methods, p \in ReqPaths, ae \in AcceptEncodings, hd \in HeaderChoices :
       LET enc == encoding(cfg.preCompressed, ae) IN
       /\ Repeats(m, p, enc, hd)
       /\ req' = [req EXCEPT ![r] = arrive(@, m, p, enc, hd)]
  /\ now' = now + 1
  /\ last' = NoLast
  /\ lastPass' = NoPass
  /\ UNCHANGED <<probe, cfg, fs, mods, cache, heap, currentCacheSize, prewarm>>

\* serveWildcard: statSafe(fs, full) answers; the path is a file, tryServe starts.
serveWildcard(r) ==
  /\ req[r].pc = "wstat"
  /\ Commit(r, tryServe(World, req[r], now))

\* checkRefresh once statSafe(fsmod, path) has answered from the disk
afterRefreshStat(w, disk, rq, t) ==
  LET comp == rq.pc = "crstat"
      path == IF comp THEN encFull(rq) ELSE fullOf(rq)
      st == statSafe(disk, path)
      gone == removeCache(w.cache, w.heap, w.size, rq.ck)
      w1 == [w EXCEPT !.cache = gone.cache, !.size = gone.size]
      rq1 == [rq EXCEPT !.ce = NoId, !.ck = "", !.dropped = rq.ck]
  IN
  IF ~st.ex
  THEN IF comp THEN stdLookup(w1, rq1, t) ELSE missBegin(w1, rq1)
  ELSE IF w.heap[rq.ce].mtimeMs # st.ver
       THEN Out(w, [rq EXCEPT !.pc = IF comp THEN "crread" ELSE "srread", !.st = st])
       ELSE IF comp THEN compValid(w, rq, rq.ce, t)
            ELSE stdValid(w, rq, rq.ce, t)

\* checkRefresh: statSafe(fsmod, path) answers.
checkRefreshStat(r) ==
  /\ req[r].pc \in {"crstat", "srstat"}
  /\ Commit(r, afterRefreshStat(World, fs, req[r], now))

\* checkRefresh once getFile(path) has answered: digest, in-place update,
\* cleanup; the caller goes on with the entry.  A file that vanished rejects
\* the read.
afterRefreshRead(w, disk, rq, t) ==
  LET comp == rq.pc = "crread"
      path == IF comp THEN encFull(rq) ELSE fullOf(rq)
      body == getFile(disk, path)
      w1 == commitRefresh(w, rq.ce, body, loadETag(rq, body), rq.st)
  IN
  IF ~fileExists(disk, path) THEN Fail(w, rq, 500)
  ELSE IF comp THEN compValid(w1, rq, rq.ce, t)
       ELSE stdValid(w1, rq, rq.ce, t)

\* checkRefresh: getFile(path) answers.
checkRefreshRead(r) ==
  /\ req[r].pc \in {"crread", "srread"}
  /\ Commit(r, afterRefreshRead(World, fs, req[r], now))

\* Miss path once fileExists(encFull) / fileExists(fullPath) has answered
afterExists(w, disk, rq) ==
  IF rq.pc = "cexists"
  THEN Out(w, [rq EXCEPT !.pc = IF fileExists(disk, encFull(rq)) THEN "cread" ELSE "sexists"])
  ELSE IF fileExists(disk, fullOf(rq))
       THEN Out(w, [rq EXCEPT !.pc = "sread"])
       ELSE Fail(w, rq, 404)

\* Miss path: fileExists(encFull) / fileExists(fullPath) answers.
missExists(r) ==
  /\ req[r].pc \in {"cexists", "sexists"}
  /\ Commit(r, afterExists(World, fs, req[r]))

\* Miss path once getFile has answered
afterRead(w, disk, rq) ==
  LET path == IF rq.pc = "cread" THEN encFull(rq) ELSE fullOf(rq) IN
  IF ~fileExists(disk, path) THEN Fail(w, rq, 500)
  ELSE Out(w, [rq EXCEPT !.pc = IF rq.pc = "cread" THEN "cstat" ELSE "sstat",
                         !.body = getFile(disk, path)])

\* Miss path: getFile answers.
missRead(r) ==
  /\ req[r].pc \in {"cread", "sread"}
  /\ Commit(r, afterRead(World, fs, req[r]))

\* Miss path once statSafe has answered: digest, (standard: conditional check,)
\* insert, respond.
afterStat(w, disk, rq, t) ==
  LET comp == rq.pc = "cstat"
      path == IF comp THEN encFull(rq) ELSE fullOf(rq)
      st == statSafe(disk, path)
      et == loadETag(rq, rq.body)
  IN
  IF comp
  THEN InsertAndServe(w, rq, cacheKey(path, rq.enc), rq.body, et, st, rq.enc, t, "cmiss")
  ELSE IF cfg.useETag /\ et # NoTag /\ isCachedNeedsStat(rq)
       THEN Out(w, [rq EXCEPT !.pc = "mcond", !.st = st])
       ELSE IF cfg.useETag /\ et # NoTag /\ isCachedSync(rq, et)
            THEN Out(w, Finish(rq, [notModified EXCEPT !.via = "smiss"]))
            ELSE InsertAndServe(w, rq, cacheKey(path, None), rq.body, et, st, None, t, "smiss")

\* Miss path: statSafe answers.
missStat(r) ==
  /\ req[r].pc \in {"cstat", "sstat"}
  /\ Commit(r, afterStat(World, fs, req[r], now))

\* isCached once fs.stat(filePath) has answered for If-Modified-Since
afterCondStat(w, disk, rq, t) ==
  LET st == statSafe(disk, fullOf(rq)) IN
  IF ~st.ex THEN Fail(w, rq, 500)
  ELSE IF isCachedStat(rq, st)
       THEN Out(w, Finish(rq, [notModified EXCEPT !.via = IF rq.pc = "scond" THEN "shit" ELSE "smiss",
                                                  !.from = rq.ce]))
       ELSE IF rq.pc = "scond" THEN Serve(w, rq, rq.ce, None, t, TRUE, "shit")
            ELSE InsertAndServe(w, rq, cacheKey(fullOf(rq), None), rq.body,
                                loadETag(rq, rq.body), rq.st, None, t, "smiss")

\* isCached: fs.stat(filePath) answers for If-Modified-Since.
condStat(r) ==
  /\ req[r].pc \in {"scond", "mcond"}
  /\ Commit(r, afterCondStat(World, fs, req[r], now))

\* The segment request rq runs next, by its position
segment(w, disk, rq, t) ==
  CASE rq.pc = "wstat" -> tryServe(w, rq, t)
    [] rq.pc \in {"crstat", "srstat"} -> afterRefreshStat(w, disk, rq, t)
    [] rq.pc \in {"crread", "srread"} -> afterRefreshRead(w, disk, rq, t)
    [] rq.pc \in {"cexists", "sexists"} -> afterExists(w, disk, rq)
    [] rq.pc \in {"cread", "sread"} -> afterRead(w, disk, rq)
    [] rq.pc \in {"cstat", "sstat"} -> afterStat(w, disk, rq, t)
    [] rq.pc \in {"scond", "mcond"} -> afterCondStat(w, disk, rq, t)

\* The response of the handler for rq when it runs alone on an unchanging disk
RECURSIVE answer(_, _, _, _)
answer(w, disk, rq, t) ==
  LET o == segment(w, disk, rq, t) IN
  IF o.rq.pc = "done" THEN o.rq.resp ELSE answer(o.w, disk, o.rq, t)

\* ------------------------------------------------------------- environment
\* Requests in flight are no longer fresh.
Stale(rqs) == [r \in Reqs |-> IF rqs[r].pc \in {"idle", "done"} THEN rqs[r]
                              ELSE [rqs[r] EXCEPT !.fresh = FALSE]]

\* Another process writes a file (new content, new mtime, some size) ...
WriteFile(p) ==
  /\ mods < MaxMods
  /\ \E sz \in FileSizes :
       fs' = [fs EXCEPT ![p] = [ex |-> TRUE, ver |-> @.ver + 1, size |-> sz]]
  /\ mods' = mods + 1
  /\ req' = Stale(req)
  /\ last' = NoLast
  /\ lastPass' = NoPass
  /\ UNCHANGED <<probe, cfg, now, cache, heap, currentCacheSize, prewarm>>

\* ... or removes it.
DeleteFile(p) ==
  /\ mods < MaxMods
  /\ fs[p].ex
  /\ fs' = [fs EXCEPT ![p] = [@ EXCEPT !.ex = FALSE]]
  /\ mods' = mods + 1
  /\ req' = Stale(req)
  /\ last' = NoLast
  /\ lastPass' = NoPass
  /\ UNCHANGED <<probe, cfg, now, cache, heap, currentCacheSize, prewarm>>

\* ------------------------------------------------------------- prewarm
\* prewarm without the size ceiling (for comparison)
prewarmFitsAlways(sz, st) == TRUE
\* prewarm: currentCacheSize + st.size > MAX_SIZE_BYTES stops the loop
prewarmFits(sz, st) == sz + st.size <= cfg.maxSize

\* The prewarm loop at `await statSafe(fs, fileAbs)` for FileList[prewarm.i].
prewarmStat ==
  LET st == statSafe(fs, FileList[prewarm.i]) IN
  /\ prewarm.pc = "stat"
  /\ prewarm' =
       IF prewarm.i > Len(FileList) \/ prewarm.loaded >= cfg.prewarmMaxFiles
       THEN [prewarm EXCEPT !.pc = "done"]
       ELSE IF ~st.ex THEN [prewarm EXCEPT !.i = @ + 1]
       ELSE IF ~prewarmFits(currentCacheSize, st) THEN [prewarm EXCEPT !.pc = "done"]
       ELSE [prewarm EXCEPT !.pc = "read", !.st = st]
  /\ last' = NoLast
  /\ lastPass' = NoPass
  /\ UNCHANGED <<probe, cfg, fs, mods, now, cache, heap, currentCacheSize, req>>

\* The prewarm loop at `await getFile(fileAbs)`: digest and putCache.
prewarmRead ==
  LET p == FileList[prewarm.i]
      id == -prewarm.i
      body == getFile(fs, p)
      et == IF cfg.useETag THEN generateETag(body) ELSE NoTag
      h1 == [heap EXCEPT ![id] = NewEntry(body, et, prewarm.st, now, TRUE)]
      res == putCache(cache, h1, currentCacheSize, cacheKey(p, None), id)
      w1 == Installed(World, h1, putCacheSize(cache, h1, currentCacheSize, cacheKey(p, None), id), res)
  IN
  /\ prewarm.pc = "read"
  /\ IF ~fileExists(fs, p)
     THEN /\ prewarm' = [prewarm EXCEPT !.pc = "failed", !.st = NoStat]
          /\ lastPass' = NoPass
          /\ UNCHANGED <<cache, heap, currentCacheSize>>
     ELSE /\ prewarm' = [prewarm EXCEPT !.pc = "stat", !.i = @ + 1, !.loaded = @ + 1, !.st = NoStat]
          /\ cache' = w1.cache
          /\ heap' = Collect(w1.heap, w1.cache, req)
          /\ currentCacheSize' = w1.size
          /\ lastPass' = w1.lastPass
  /\ last' = NoLast
  /\ UNCHANGED <<probe, cfg, fs, mods, now, req>>

\* ------------------------------------------------------------- specification
InitialDisk ==
  [p \in FilePaths |->
     [ex |-> TRUE, ver |-> 0, size |-> IF p = "/r/b.css" THEN 3 ELSE 1]]

Options ==
  [prewarmEnable : BOOLEAN, preCompressed : {TRUE}, useETag : {TRUE},
   maxSize : {1}, overshoot : {2}, prewarmMaxFiles : {2},
   traffic : {"plain", "http"}, conc : 1..MaxConc]

\* The plugin after construction
InitMachine(options) ==
  /\ cfg \in options
  /\ fs = InitialDisk
  /\ mods = 0
  /\ now = 0
  /\ cache = <<>>
  /\ heap = [id \in EntryIds |-> NilEntry]
  /\ currentCacheSize = 0
  /\ prewarm = [pc |-> IF cfg.prewarmEnable THEN "stat" ELSE "done", i |-> 1, loaded |-> 0, st |-> NoStat]
  /\ req = [r \in Reqs |-> IdleReq(r)]
  /\ last = NoLast
  /\ lastPass = NoPass

NoProbe == [pc |-> "none"]
InitWith(options) == InitMachine(options) /\ probe = NoProbe

Environment ==
  \/ \E p \in MutablePaths : WriteFile(p)
  \/ \E p \in MutablePaths : DeleteFile(p)

Handlers ==
  \/ \E r \in Reqs : Start(r)
  \/ \E r \in Reqs : serveWildcard(r)
  \/ \E r \in Reqs : checkRefreshStat(r)
  \/ \E r \in Reqs : checkRefreshRead(r)
  \/ \E r \in Reqs : missExists(r)
  \/ \E r \in Reqs : missRead(r)
  \/ \E r \in Reqs : missStat(r)

\* Dynamic mode (prewarm disabled), concurrent plain GET requests.
Init == InitWith({o \in Options : ~o.prewarmEnable /\ o.traffic = "plain" /\ o.conc = MaxConc})
Next == Environment \/ Handlers
Spec == Init /\ [][Next]_vars

\* Dynamic mode, one request at a time, with conditional and range headers.
InitHttp == InitWith({o \in Options : ~o.prewarmEnable /\ o.traffic = "http" /\ o.conc = 1})
NextHttp == Environment \/ Handlers \/ (\E r \in Reqs : condStat(r))
SpecHttp == InitHttp /\ [][NextHttp]_vars

\* Static mode (prewarm enabled): the startup prewarm, then plain GET requests.
InitStatic == InitWith({o \in Options : o.prewarmEnable /\ o.traffic = "plain" /\ o.conc = MaxConc})
NextStatic ==
  \/ Environment
  \/ prewarmStat
  \/ prewarmRead
  \/ \E r \in Reqs : Start(r)
  \/ \E r \in Reqs : serveWildcard(r)
  \/ \E r \in Reqs : missExists(r)
  \/ \E r \in Reqs : missRead(r)
  \/ \E r \in Reqs : missStat(r)
SpecStatic == InitStatic /\ [][NextStatic]_vars


\* ------------------------------------------------------------- properties

\* C1: between handler segments (no insert or eviction in progress) the aggregate
\* size counter equals the sum of the sizes of the entries stored in the cache.
C1_CounterEqualsSum == currentCacheSize = SumSizes(cache, heap)


\* C2: when an insertion or a refresh leaves the counter above maxSize + overshoot,
\* the cleanup pass runs and leaves it at or below maxSize; and after every
\* insertion or refresh the counter is at most maxSize + overshoot.
C2_CleanupBoundsCounter ==
  lastPass.called =>
    /\ (lastPass.before > cfg.maxSize + cfg.overshoot =>
          lastPass.ran /\ currentCacheSize <= cfg.maxSize)
    /\ currentCacheSize <= cfg.maxSize + cfg.overshoot

\* C3: within an eviction pass entries are removed in non-decreasing order of
\* (hits, lastAccess), and nothing is removed while an entry of strictly smaller
\* rank stays in the cache.
C3_EvictionInRankOrder ==
  /\ \A i, j \in 1..Len(lastPass.evicted) :
       i < j => RankLeq(lastPass.evicted[i], lastPass.evicted[j])
  /\ \A i \in 1..Len(lastPass.evicted) :
       \A k \in lastPass.kept : RankLeq(lastPass.evicted[i], k)

\* A pass that removed two entries and kept a third.
C3_Witness == Len(lastPass.evicted) >= 2 /\ lastPass.kept # {}

\* C4: a request served from an entry raises the entry's hits by exactly 1,
\* whichever branch of tryServe produced the entry.
C4_OneHitPerServe ==
  last.resp.status \in {200, 206} => last.resp.dhits = 1

\* The key a miss-load will insert under, once the file has been read.
LoadedKey(rq) ==
  IF rq.pc = "cstat" THEN cacheKey(encFull(rq), rq.enc)
  ELSE IF rq.pc \in {"sstat", "mcond"} THEN cacheKey(fullOf(rq), None)
  ELSE ""

\* C5: for every key at most one disk load is in flight: no two requests
\* have both read the file of the same key and are both about to insert it.
C5_OneLoadPerKey ==
  \A r1, r2 \in Reqs :
    (r1 # r2 /\ LoadedKey(req[r1]) # "") => LoadedKey(req[r1]) # LoadedKey(req[r2])

\* C6: a refresh changes body, etag, mtimeMs and size of an entry in one step:
\* an entry held or looked up by any request, and every response built from an
\* entry, shows the four values of one and the same load or refresh.
C6_RefreshIsAtomic ==
  /\ \A id \in EntryIds : heap[id] # NilEntry => SnapOf(heap[id]) = heap[id].written
  /\ last.resp.status \in {200, 206} => last.resp.snap = last.resp.written

\* A request has just refreshed an entry in place and answered from it while
\* another request, suspended in checkRefresh, holds the same entry.
C6_Witness ==
  /\ lastPass.called
  /\ last.resp.via \in {"shit", "chit"}
  /\ last.resp.status = 200
  /\ \E r \in InFlight : req[r].ce = last.resp.from

\* C7: in dynamic mode a GET that arrives after the last modification of the
\* file it is answered from returns the file's current content.
C7_FreshGetSeesNewContent ==
  (devMode /\ last.method = "GET" /\ last.fresh /\ last.resp.status = 200)
    => last.resp.body.ver = fs[last.resp.body.path].ver

\* The request repeats, with If-None-Match, the request whose 200 response
\* carried that ETag; the file the ETag was computed from is still the one on
\* disk, and no file has changed since the request arrived.
Revalidates(rq) ==
  /\ rq.method = "GET" /\ rq.inm.kind = "tag" /\ rq.fresh
  /\ fileExists(fs, rq.inm.tag.path) /\ fs[rq.inm.tag.path].ver = rq.inm.tag.ver

\* C8: such a revalidation is answered 304 with an empty body and without
\* Content-Type, Content-Length or Content-Encoding, for raw entries and for
\* precompressed variants.
C8_RevalidationGives304 ==
  (cfg.useETag /\ Revalidates(last)) =>
    /\ last.resp.status = 304
    /\ last.resp.body = NoSlice
    /\ last.resp.ctype = None /\ last.resp.clen = -1 /\ last.resp.cenc = None

\* C9: with preCompressed enabled, a GET accepting br for a path whose .br file
\* exists is answered 200 with Content-Encoding: br and Vary: Accept-Encoding,
\* whatever was served or cached before.
C9_BrotliVariantServed ==
  (cfg.preCompressed /\ last.method = "GET" /\ last.enc = "br" /\ last.fresh
     /\ last.pc = "done" /\ fileExists(fs, encFull(last)))
    => (last.resp.status = 200 /\ last.resp.cenc = "br" /\ last.resp.vary)

\* C10: a GET with a byte range inside the entry's size is answered 206 with
\* Content-Range start-end/size, Content-Length end-start+1 and a body that is
\* exactly bytes start..end of the entry's content.
C10_RangeDeliversWindow ==
  (last.method = "GET" /\ last.range.present /\ last.resp.from # NoId
     /\ rangeValid(last.range, last.resp.snap.size))
    => LET end == rangeEnd(last.range, last.resp.snap.size) IN
       /\ last.resp.status = 206
       /\ last.resp.crange = [start |-> last.range.start, end |-> end,
                              size |-> last.resp.snap.size]
       /\ last.resp.clen = end - last.range.start + 1
       /\ last.resp.body = [path |-> last.resp.snap.body.path, ver |-> last.resp.snap.body.ver,
                            from |-> last.range.start, to |-> end + 1]


\* ------------------------------------------------------------- Range header
\* A header value is the sequence of its characters; the literal "bytes=" is
\* written as one symbol.
RangeChars == {"bytes=", "0", "2", "7", "-", ",", "x"}
DigitChars == {"0", "2", "7"}
DigitVal(c) == IF c = "0" THEN 0 ELSE IF c = "2" THEN 2 ELSE 7
\* Longest header value considered
MaxHeaderLen == 4
\* Entry sizes the range is checked against
RangeSizes == {0, 3, 8}

\* range.replace(/bytes=/, ''): the first occurrence is removed
RECURSIVE replaceBytes(_)
replaceBytes(s) ==
  IF s = <<>> THEN <<>>
  ELSE IF Head(s) = "bytes=" THEN Tail(s)
  ELSE <<Head(s)>> \o replaceBytes(Tail(s))

\* String.prototype.split('-'): cur is the part being collected
RECURSIVE splitFrom(_, _)
splitFrom(s, cur) ==
  IF s = <<>> THEN <<cur>>
  ELSE IF Head(s) = "-" THEN <<cur>> \o splitFrom(Tail(s), <<>>)
  ELSE splitFrom(Tail(s), Append(cur, Head(s)))
split(s) == splitFrom(s, <<>>)

\* parseInt(s, 10): the number written by the leading digits, NaN without any
RECURSIVE parseDigits(_, _)
parseDigits(s, acc) ==
  IF s = <<>> \/ Head(s) \notin DigitChars THEN acc
  ELSE parseDigits(Tail(s), 10 * acc + DigitVal(Head(s)))
parseInt(s) == IF s = <<>> \/ Head(s) \notin DigitChars THEN NaN ELSE parseDigits(s, 0)

\* buildResponse: reqHeaders['range'] taken apart into start and end
parseRange(hdr) ==
  LET parts == split(replaceBytes(hdr))
      given == Len(parts) >= 2 /\ parts[2] # <<>>
  IN  IF hdr = <<>> THEN NoRange
      ELSE [present |-> TRUE, start |-> parseInt(parts[1]), hasEnd |-> given,
            end |-> IF given THEN parseInt(parts[2]) ELSE 0]

\* An entry of `size` bytes, loaded from an unchanged file
EntryOfSize(size) ==
  LET body == [path |-> "/r/a.js", ver |-> 0, len |-> size] IN
  NewEntry(body, generateETag(body), [ex |-> TRUE, ver |-> 0, size |-> size], 0, FALSE)

\* Headers that list two ranges: bytes=a-b,c-d
MultiRangeHeaders ==
  {<<"bytes=", a, "-", b, ",", c, "-", d>> : a \in DigitChars, b \in DigitChars,
                                             c \in DigitChars, d \in DigitChars}

RECURSIVE SeqsUpTo(_, _)
SeqsUpTo(S, n) ==
  IF n = 0 THEN {<<>>}
  ELSE LET shorter == SeqsUpTo(S, n - 1) IN
       shorter \cup {Append(q, c) : q \in shorter, c \in S}

\* buildResponse for a request with that Range header
RangeRequest ==
  /\ probe.pc = "in"
  /\ probe' = [probe EXCEPT !.pc = "out",
                 !.resp = buildResponse(touch(EntryOfSize(probe.size), 0), "/a.js",
                                        parseRange(probe.hdr), None)]
  /\ UNCHANGED <<cfg, fs, mods, now, cache, heap, currentCacheSize, prewarm, req, last, lastPass>>

MachineAtRest == InitMachine({o \in Options : ~o.prewarmEnable /\ o.traffic = "plain" /\ o.conc = 1})

InitRange ==
  /\ MachineAtRest
  /\ probe \in [pc : {"in"}, hdr : SeqsUpTo(RangeChars, MaxHeaderLen) \cup MultiRangeHeaders,
                size : RangeSizes,
                resp : {NoResp}]
SpecRange == InitRange /\ [][RangeRequest]_vars

\* The range of the header is not one the entry can deliver: start or end is not
\* a number, or start <= end < size fails.
RangeUnusable(hdr, size) ==
  LET rg == parseRange(hdr)
      end == rangeEnd(rg, size)
  IN  rg.start = NaN \/ end = NaN \/ ~(rg.start <= end /\ end < size)

up == <<".", ".">>
SegNames == {up, <<"a">>, <<"b">>, <<"d">>, <<"w", "o">>}
\* Longest request path considered, in segments
MaxSegs == 3


\* the segments between the slashes of a path
RECURSIVE segmentsFrom(_, _)
segmentsFrom(str, cur) ==
  IF str = <<>> THEN <<cur>>
  ELSE IF Head(str) = "/" THEN <<cur>> \o segmentsFrom(Tail(str), <<>>)
  ELSE segmentsFrom(Tail(str), Append(cur, Head(str)))
segments(str) == segmentsFrom(str, <<>>)

\* path.normalize on the segments of an absolute path: empty and "." segments
\* vanish, ".." removes the segment before it and stops at the top
RECURSIVE normalizeSegs(_, _)
normalizeSegs(segs, out) ==
  IF segs = <<>> THEN out
  ELSE IF Head(segs) = <<>> \/ Head(segs) = <<".">> THEN normalizeSegs(Tail(segs), out)
  ELSE IF Head(segs) = up
       THEN normalizeSegs(Tail(segs), IF out = <<>> THEN out ELSE SubSeq(out, 1, Len(out) - 1))
  ELSE normalizeSegs(Tail(segs), Append(out, Head(segs)))

RECURSIVE joinSegs(_)
joinSegs(segs) == IF segs = <<>> THEN <<>> ELSE <<"/">> \o Head(segs) \o joinSegs(Tail(segs))

\* path.join(root, clean) for an absolute root; a trailing slash is kept
pathJoin(root, clean) ==
  LET segs == normalizeSegs(segments(root \o <<"/">> \o clean), <<>>) IN
  IF segs = <<>> THEN <<"/">>
  ELSE joinSegs(segs) \o (IF endsWith(clean, <<"/">>) THEN <<"/">> ELSE <<>>)

\* requirePath(root, rel) for any request path: rel.replace(/^\//, '') and path.join
requirePathOf(root, rel) ==
  pathJoin(root, IF startsWith(rel, <<"/">>) THEN Tail(rel) ELSE rel)

\* The directories served and their neighbours: /w and /x are roots, /wo is a
\* directory beside /w whose name extends it.  /w/a has a brotli variant.
RootW == <<"/", "w">>
RootX == <<"/", "x">>
TreeFiles ==
  { <<<<"w">>, <<"a">>>>, <<<<"w">>, <<"d">>, <<"i">>>>, <<<<"w">>, <<"d">>, <<"j">>>>,
    <<<<"w", "o">>, <<"a">>>>, <<<<"w", "o">>, <<"d">>, <<"i">>>>,
    <<<<"x">>, <<"a">>>>, <<<<"x">>, <<"b">>>>, <<<<"x">>, <<"d">>, <<"i">>>>,
    <<<<"w">>, <<"a", ".", "b", "r">>>> }
TreeDirs == UNION {{SubSeq(f, 1, n) : n \in 0..(Len(f) - 1)} : f \in TreeFiles}

\* fs.stat(path): "file", "dir" or "none" (the call rejects); a trailing slash
\* asks for a directory
statKind(str) ==
  LET segs == normalizeSegs(segments(str), <<>>) IN
  IF segs \in TreeDirs THEN "dir"
  ELSE IF segs \in TreeFiles /\ ~endsWith(str, <<"/">>) THEN "file"
  ELSE "none"

\* shouldIgnoreFactory(ignorePatterns) with string patterns
ignore(o, file) == \E i \in 1..Len(o.ignorePatterns) : includes(file, o.ignorePatterns[i])

\* The response of the resolution, with what it touched on the way: the paths
\* given to statSafe and to tryServe, each with the index of its root.
\* `body` is the file the response body is read from.
NoAnswer == [status |-> 0, served |-> <<>>, location |-> <<>>, root |-> 0,
             statted |-> <<>>, tried |-> <<>>, body |-> <<>>]

\* tryServe(full, ...) for a plain GET on an empty cache and an unchanging disk:
\* fileExists (fs.stat succeeds), getFile (fs.readFile, which rejects for a
\* directory), statSafe, putCache, buildResponse.  "null" is tryServe's null.
\* The precompressed variant is tried first.
encFullPath(full, enc) ==
  full \o <<".">> \o (IF enc = "br" THEN <<"b", "r">> ELSE <<"g", "z">>)
tryServeFile(path) ==
  IF statKind(path) = "dir" THEN [result |-> "throws", body |-> <<>>]
  ELSE [result |-> "response", body |-> path]
tryServeCold(full, enc) ==
  IF enc # None /\ statKind(encFullPath(full, enc)) # "none"
  THEN tryServeFile(encFullPath(full, enc))
  ELSE IF statKind(full) = "none" THEN [result |-> "null", body |-> <<>>]
  ELSE tryServeFile(full)

\* path.relative(root, full) of two absolute paths: ".." for every segment of
\* root after the common prefix, then the rest of full
RECURSIVE commonPrefixLen(_, _)
commonPrefixLen(a, b) ==
  IF a = <<>> \/ b = <<>> \/ Head(a) # Head(b) THEN 0
  ELSE 1 + commonPrefixLen(Tail(a), Tail(b))
pathRelative(root, full) ==
  LET rs == normalizeSegs(segments(root), <<>>)
      fsegs == normalizeSegs(segments(full), <<>>)
      k == commonPrefixLen(rs, fsegs)
      rel == [i \in 1..(Len(rs) - k) |-> up] \o SubSeq(fsegs, k + 1, Len(fsegs))
  IN  IF rel = <<>> THEN <<>> ELSE Tail(joinSegs(rel))

\* The containment check of serveWildcard: full.startsWith(root) in the
\* byte-accounted revision, path.relative in src/src/index.ts
contained(o, root, full) ==
  IF o.revision = "index" THEN ~startsWith(pathRelative(root, full), up)
  ELSE startsWith(full, root)

Answer(log, status, served, rootIx) ==
  [log EXCEPT !.status = status, !.served = served, !.root = rootIx]
\* the response tryServe returned for candidate `served`
Served(log, served, rootIx, body) ==
  [Answer(log, 200, served, rootIx) EXCEPT !.body = body]

\* serveWildcard: the loop over indexFiles for a directory; the result is the
\* response, or the log with status 0 when no index file served
\* the index request without the separating slash (for comparison)
indexRequestNoSlash(reqPath, name) == reqPath \o name
\* idxReq = reqPath.endsWith('/') ? reqPath + name : reqPath + '/' + name
indexRequest(reqPath, name) ==
  IF endsWith(reqPath, <<"/">>) THEN reqPath \o name ELSE reqPath \o <<"/">> \o name

RECURSIVE indexLoop(_, _, _, _, _, _)
indexLoop(o, rootIx, reqPath, enc, names, log) ==
  IF names = <<>> THEN log
  ELSE
    LET root == o.roots[rootIx]
        idxReq == indexRequest(reqPath, Head(names))
        idxFull == requirePathOf(root, idxReq)
        log1 == [log EXCEPT !.tried = Append(@, <<rootIx, idxFull>>)]
    IN  IF ~contained(o, root, idxFull) \/ ignore(o, idxFull)
        THEN indexLoop(o, rootIx, reqPath, enc, Tail(names), log)
        ELSE IF tryServeCold(idxFull, enc).result = "response"
             THEN Served(log1, idxFull, rootIx, tryServeCold(idxFull, enc).body)
        ELSE IF tryServeCold(idxFull, enc).result = "throws" THEN Answer(log1, 500, <<>>, rootIx)
        ELSE indexLoop(o, rootIx, reqPath, enc, Tail(names), log1)

\* serveWildcard: the loop over the roots, from root rootIx on
RECURSIVE rootLoop(_, _, _, _, _)
rootLoop(o, reqPath, enc, rootIx, log) ==
  IF rootIx > Len(o.roots) THEN Answer(log, 404, <<>>, 0)
  ELSE
    LET root == o.roots[rootIx]
        full == requirePathOf(root, reqPath)
        log1 == [log EXCEPT !.statted = Append(@, <<rootIx, full>>)]
        log2 == [log1 EXCEPT !.tried = Append(@, <<rootIx, full>>)]
        idx == indexLoop(o, rootIx, reqPath, enc, o.indexFiles, log1)
    IN  IF ~contained(o, root, full) \/ ignore(o, full)
        THEN rootLoop(o, reqPath, enc, rootIx + 1, log)
        ELSE IF statKind(full) = "dir" /\ o.indexHTML
             THEN IF idx.status # 0 THEN idx ELSE rootLoop(o, reqPath, enc, rootIx + 1, idx)
        ELSE IF tryServeCold(full, enc).result = "response"
             THEN Served(log2, full, rootIx, tryServeCold(full, enc).body)
        ELSE IF tryServeCold(full, enc).result = "throws" THEN Answer(log2, 500, <<>>, rootIx)
        ELSE rootLoop(o, reqPath, enc, rootIx + 1, log2)

\* Request paths: "/" followed by up to MaxSegs segments, with or without a
\* trailing slash
RECURSIVE StarPaths(_)
StarPaths(n) ==
  IF n = 0 THEN {<<>>}
  ELSE LET shorter == StarPaths(n - 1) IN
       shorter \cup {q \o (IF q = <<>> THEN <<>> ELSE <<"/">>) \o seg : q \in shorter, seg \in SegNames}
RequestPaths ==
  {<<"/">> \o q : q \in StarPaths(MaxSegs)}
  \cup {<<"/">> \o q \o <<"/">> : q \in StarPaths(MaxSegs) \ {<<>>}}

ResolveOptions ==
  [roots : {<<RootW>>, <<RootW, RootX>>, <<RootX, RootW>>},
   ignorePatterns : {<<>>, <<<<"b">>>>, <<<<"j">>>>},
   indexHTML : BOOLEAN, indexFiles : {<<<<"i">>>>, <<<<"j">>, <<"i">>>>, <<<<"i">>, <<"j">>>>},
   redirect : BOOLEAN, revision : {"part_000", "index"}]

\* serveWildcard for one GET, with negotiated encoding probe.enc, on a plugin
\* constructed with probe.o
Resolve ==
  /\ probe.pc = "in"
  /\ probe' = [probe EXCEPT !.pc = "out",
                 !.out = rootLoop(probe.o, probe.reqPath, probe.enc, 1, NoAnswer)]
  /\ UNCHANGED <<cfg, fs, mods, now, cache, heap, currentCacheSize, prewarm, req, last, lastPass>>

InitResolve ==
  /\ MachineAtRest
  /\ probe \in [pc : {"in"}, o : ResolveOptions, reqPath : RequestPaths,
                enc : {None, "br"}, out : {NoAnswer}]
SpecResolve == InitResolve /\ [][Resolve]_vars

\* ---- what the resolution is to deliver
\* full lies in root or below it
Inside(root, full) ==
  LET rs == normalizeSegs(segments(root), <<>>)
      fsegs == normalizeSegs(segments(full), <<>>)
  IN  Len(rs) <= Len(fsegs) /\ SubSeq(fsegs, 1, Len(rs)) = rs

\* a regular file inside the root that no ignore pattern hides
Servable(o, root, full) == Inside(root, full) /\ ~ignore(o, full) /\ statKind(full) = "file"

\* the index files of directory reqPath under root that can be served, in configured order
FileIn(dir, name) == joinSegs(Append(normalizeSegs(segments(dir), <<>>), name))
IndexCandidates(o, root, reqPath) ==
  SelectSeq([i \in 1..Len(o.indexFiles) |->
               FileIn(requirePathOf(root, reqPath), o.indexFiles[i])],
            LAMBDA f : Servable(o, root, f))

\* reqPath names, under root, a directory inside the root that is not hidden
IsDirectory(o, root, reqPath) ==
  LET full == requirePathOf(root, reqPath) IN
  Inside(root, full) /\ ~ignore(o, full) /\ statKind(full) = "dir"

\* the candidate root offers for reqPath: the file itself, or for a directory
\* with index fallback its first index file; <<>> if none
Candidate(o, root, reqPath) ==
  LET full == requirePathOf(root, reqPath) IN
  IF Servable(o, root, full) THEN full
  ELSE IF IsDirectory(o, root, reqPath) /\ o.indexHTML /\ IndexCandidates(o, root, reqPath) # <<>>
       THEN IndexCandidates(o, root, reqPath)[1]
  ELSE <<>>

\* the first root, in configured order, that offers a candidate; 0 if none
FirstRoot(o, reqPath) ==
  LET offering == {i \in 1..Len(o.roots) : Candidate(o, o.roots[i], reqPath) # <<>>} IN
  IF offering = {} THEN 0 ELSE CHOOSE i \in offering : \A j \in offering : i <= j

\* C12: nothing outside its root is given to statSafe or tryServe or served, and
\* a request all of whose candidates lie outside their roots is answered 404.
C12_NothingOutsideRoot ==
  probe.pc = "out" =>
    /\ \A i \in 1..Len(probe.out.statted) :
         Inside(probe.o.roots[probe.out.statted[i][1]], probe.out.statted[i][2])
    /\ \A i \in 1..Len(probe.out.tried) :
         Inside(probe.o.roots[probe.out.tried[i][1]], probe.out.tried[i][2])
    /\ probe.out.served # <<>> => Inside(probe.o.roots[probe.out.root], probe.out.served)
    /\ (\A i \in 1..Len(probe.o.roots) :
          ~Inside(probe.o.roots[i], requirePathOf(probe.o.roots[i], probe.reqPath)))
         => probe.out.status = 404

\* C13: with redirect enabled, a directory path without trailing slash whose
\* directory has an index file is answered 301 with Location: <path>/.
C13_DirectoryRedirects ==
  (probe.pc = "out" /\ probe.o.redirect /\ probe.o.indexHTML
     /\ ~endsWith(probe.reqPath, <<"/">>)
     /\ FirstRoot(probe.o, probe.reqPath \o <<"/">>) # 0
     /\ IsDirectory(probe.o, probe.o.roots[FirstRoot(probe.o, probe.reqPath \o <<"/">>)],
                    probe.reqPath \o <<"/">>))
    => (probe.out.status = 301 /\ probe.out.location = probe.reqPath \o <<"/">>)

C15_FirstRootWins ==
  probe.pc = "out" =>
    IF FirstRoot(probe.o, probe.reqPath) = 0 THEN probe.out.status = 404
    ELSE /\ probe.out.status = 200
         /\ probe.out.root = FirstRoot(probe.o, probe.reqPath)
         /\ probe.out.served = Candidate(probe.o, probe.o.roots[probe.out.root], probe.reqPath)


\* ------------------------------------------------------------- isCached
\* isCached(headers, etag, filePath) for a file that exists with mtime st.ver
isCached(rq, etag, st) ==
  IF isCachedNeedsStat(rq) THEN isCachedStat(rq, st) ELSE isCachedSync(rq, etag)

\* ETag values: base64 digests, two of them differing only in case
ETagValues == {"Qw==", "qw==", "Zg=="}
IfNoneMatchValues ==
  {NoInm, [kind |-> "star", tag |-> NoTag]} \cup {[kind |-> "tag", tag |-> t] : t \in ETagValues}
\* If-Modified-Since and mtime, as times; -1 is no header
Times == 0..1

CheckCached ==
  /\ probe.pc = "in"
  /\ probe' = [probe EXCEPT !.pc = "out",
                 !.result = isCached(probe.rq, probe.etag, [ex |-> TRUE, ver |-> probe.mtime, size |-> 1])]
  /\ UNCHANGED <<cfg, fs, mods, now, cache, heap, currentCacheSize, prewarm, req, last, lastPass>>

InitCached ==
  /\ MachineAtRest
  /\ probe \in [pc : {"in"},
                rq : [noCache : BOOLEAN, inm : IfNoneMatchValues, ims : {-1} \cup Times],
                etag : ETagValues, mtime : Times, result : {FALSE}]
SpecCached == InitCached /\ [][CheckCached]_vars

\* C16: with If-None-Match present and no no-cache/no-store directive, * and a
\* value equal to the entry's ETag give not-modified, any other value gives
\* fresh, whatever If-Modified-Since says.
C16_IfNoneMatchDecides ==
  (probe.pc = "out" /\ ~probe.rq.noCache /\ probe.rq.inm.kind # "absent")
    => (probe.result <=> (probe.rq.inm.kind = "star" \/ probe.rq.inm.tag = probe.etag))

\* If-None-Match differed from the ETag only in case while If-Modified-Since
\* was not before the file's mtime: the answer was fresh.
C16_Witness ==
  /\ probe.pc = "out" /\ ~probe.rq.noCache
  /\ probe.rq.inm = [kind |-> "tag", tag |-> "qw=="] /\ probe.etag = "Qw=="
  /\ probe.rq.ims >= probe.mtime
  /\ ~probe.result


\* C17: a stat or read failure while a candidate is handled counts as absence:
\* the request ends in 404 (or in a response from another candidate), never in
\* an unhandled error, which the server answers with 500.
C17_FailuresAreAbsence ==
  last.pc = "done" => last.resp.status \in {200, 206, 304, 404}


\* C18: while a prewarm load is in progress no request is being handled or has
\* been answered, so every cache change is prewarm's own; and once prewarm has
\* ended it never runs again.
C18_PrewarmBeforeRoutes ==
  /\ [](prewarm.pc \in {"stat", "read"} =>
          (\A r \in Reqs : req[r].pc = "idle") /\ last = NoLast)
  /\ [][prewarm.pc \in {"done", "failed"} => prewarm' = prewarm]_vars

\* Prewarm has loaded a file and ended, and a request has then been answered.
C18_Witness ==
  prewarm.pc = "done" /\ prewarm.loaded >= 1 /\ last.resp.status = 200

\* C19: the eviction pass runs exactly when the counter exceeds maxSize +
\* overshoot; an insert or refresh that leaves it at or below evicts nothing.
C19_EvictionOnlyAboveBoth ==
  lastPass.called =>
    /\ lastPass.ran <=> lastPass.before > cfg.maxSize + cfg.overshoot
    /\ lastPass.before <= cfg.maxSize + cfg.overshoot => lastPass.evicted = <<>>

\* The file checkRefresh stats for request rq
RefreshPath(rq) == IF rq.pc = "crstat" THEN encFull(rq) ELSE fullOf(rq)
\* The size of the entry stored under key k, 0 if there is none
StoredSize(k) == IF cacheHas(cache, k) THEN heap[cacheGetId(cache, k)].size ELSE 0

\* C20: in dynamic mode, when the stat of a hit finds the file gone, the key is
\* removed and the counter reduced by the stored entry's size, the request goes
\* on to its next candidate without the entry, and, neither the file nor its
\* compressed variant being on disk, ends in 404.
C20_StaleEntryDropped ==
  /\ [][\A r \in Reqs :
          (req[r].pc \in {"crstat", "srstat"} /\ req'[r].pc # req[r].pc
             /\ ~fileExists(fs, RefreshPath(req[r])))
          => /\ ~cacheHas(cache', req[r].ck)
             /\ currentCacheSize' = currentCacheSize - StoredSize(req[r].ck)
             /\ req'[r].pc \in {"srstat", "cexists", "sexists"}
             /\ req'[r].ce # req[r].ce]_vars
  /\ []((last.pc = "done" /\ last.dropped # "" /\ last.fresh
           /\ ~fileExists(fs, fullOf(last))
           /\ (last.enc = None \/ ~fileExists(fs, encFull(last))))
          => last.resp.status = 404)

\* A request found the file of its cached entry gone, dropped the entry and
\* was answered 404.
C20_Witness ==
  last.pc = "done" /\ last.dropped # "" /\ last.fresh /\ last.resp.status = 404


\* The key under which tryServe finds the entry for request rq: the compressed
\* variant first, then the file itself; "" when neither is cached.
HitKey(rq) ==
  IF encFull(rq) # None /\ cacheHas(cache, cacheKey(encFull(rq), rq.enc))
  THEN cacheKey(encFull(rq), rq.enc)
  ELSE IF cacheHas(cache, cacheKey(fullOf(rq), None)) THEN cacheKey(fullOf(rq), None)
  ELSE ""

\* C21: in static mode (prewarm enabled) a request that finds its key cached is
\* answered in the same step from that entry as it is: no stat of the file is
\* awaited, the response is built from the entry's stored body, etag, size and
\* mtime, those fields and the cached keys stay as they were, and the disk is
\* not consulted, whatever version of the file is on disk.
C21_StaticHitAsIs ==
  [][\A r \in Reqs :
       (cfg.prewarmEnable /\ req[r].pc = "wstat" /\ req'[r].pc # "wstat"
          /\ HitKey(req[r]) # "")
       => LET id == cacheGetId(cache, HitKey(req[r])) IN
          /\ last'.pc = "done" /\ last'.slot = r
          /\ last'.resp.status = 200
          /\ last'.resp.from = id
          /\ last'.resp.snap = SnapOf(heap[id])
          /\ last'.resp.body.ver = heap[id].body.ver
          /\ SnapOf(heap'[id]) = SnapOf(heap[id])
          /\ cache' = cache
          /\ currentCacheSize' = currentCacheSize]_vars

\* In static mode a hit has been served from an entry whose file has since been
\* rewritten or removed.
C21_Witness ==
  /\ cfg.prewarmEnable /\ last.pc = "done" /\ last.resp.via \in {"chit", "shit"}
  /\ LET f == fs[last.resp.snap.body.path] IN ~f.ex \/ f.ver # last.resp.snap.mtimeMs


\* The file request rq's entry is loaded from: the negotiated variant when it
\* is on disk, the file itself otherwise.
EntryPath(rq) ==
  IF encFull(rq) # None /\ fileExists(fs, encFull(rq)) THEN encFull(rq) ELSE fullOf(rq)

\* C22: a request without If-None-Match and without no-cache that carries
\* If-Modified-Since is answered 304 when the modification time of its entry
\* (that of the file it is loaded from, nothing having been written meanwhile)
\* is at or before the header's time.
C22_ModifiedSinceGives304 ==
  (/\ last.pc = "done" /\ last.fresh
   /\ last.inm.kind = "absent" /\ ~last.noCache /\ last.ims >= 0
   /\ fileExists(fs, EntryPath(last))
   /\ fs[EntryPath(last)].ver <= last.ims)
  => last.resp.status = 304


\* C23: a 304 response carries the Cache-Control header and the custom headers
\* of the 200 response buildResponse gives the same request, has no body and no
\* Content-Type, Content-Length or Content-Encoding header.
C23_NotModifiedHeaders ==
  (last.pc = "done" /\ last.resp.status = 304)
  => LET ok == buildResponse(NilEntry, last.path, last.range, last.enc) IN
     /\ last.resp.cc = ok.cc
     /\ last.resp.custom = ok.custom
     /\ last.resp.body = NoSlice
     /\ last.resp.ctype = None /\ last.resp.clen = -1 /\ last.resp.cenc = None


\* C24: a Range header that lists two ranges gets the full 200 response, never
\* a 206, whatever the four numbers and the size of the entry.
C24_MultiRangeFallsBack ==
  (probe.pc = "out" /\ probe.hdr \in MultiRangeHeaders)
  => /\ probe.resp.status = 200
     /\ probe.resp.crange = NoContentRange
     /\ probe.resp.body.from = 0 /\ probe.resp.body.to = probe.size


\* ------------------------------------------------------------- encoding negotiation
\* Longest Accept-Encoding value considered
MaxAcceptLen == 4

\* serveWildcard's encoding for a request with that Accept-Encoding header
Negotiate ==
  /\ probe.pc = "in"
  /\ probe' = [probe EXCEPT !.pc = "out", !.enc = encoding(probe.preCompressed, probe.ae)]
  /\ UNCHANGED <<cfg, fs, mods, now, cache, heap, currentCacheSize, prewarm, req, last, lastPass>>

InitNegotiate ==
  /\ MachineAtRest
  /\ probe \in [pc : {"in"}, preCompressed : BOOLEAN,
                ae : SeqsUpTo(AcceptChars, MaxAcceptLen), enc : {None}]
SpecNegotiate == InitNegotiate /\ [][Negotiate]_vars

\* The word occurs in the header, letter case apart.
ContainsWord(hdr, word) ==
  \E i \in 1..Len(hdr) :
    /\ i + Len(word) - 1 <= Len(hdr)
    /\ \A j \in 1..Len(word) : toLowerCaseChar(hdr[i + j - 1]) = word[j]

\* C25: the negotiated encoding is none when preCompressed is off; when it is on
\* it is br if the header contains br in any letter case, else gzip if it
\* contains gzip, else none (an empty or absent header gives none).
C25_NegotiatedEncoding ==
  probe.pc = "out" =>
    probe.enc = IF ~probe.preCompressed THEN None
                ELSE IF ContainsWord(probe.ae, <<"b", "r">>) THEN "br"
                ELSE IF ContainsWord(probe.ae, <<"gzip">>) THEN "gzip"
                ELSE None

\* A header naming gzip first and br after it, in upper and mixed case, gave br.
C25_Witness ==
  /\ probe.pc = "out" /\ probe.preCompressed
  /\ probe.ae = <<"GZIP", ",", "B", "r">> /\ probe.enc = "br"


\* C26: a request that negotiated a variant whose file is not on disk (never
\* there, or removed after its entry was cached), while the file itself is, is
\* answered 200 with the content of the file itself and without
\* Content-Encoding.  The disk is the one the whole request saw.
C26_RawFallback ==
  (/\ last.pc = "done" /\ last.fresh
   /\ last.enc # None
   /\ ~fileExists(fs, encFull(last))
   /\ fileExists(fs, fullOf(last)))
  => /\ last.resp.status = 200
     /\ last.resp.cenc = None
     /\ last.resp.body.path = fullOf(last)

\* A request found the file of its cached variant gone, dropped that entry and
\* was answered from the file itself.
C26_Witness ==
  /\ last.pc = "done" /\ last.fresh /\ last.enc # None
  /\ last.dropped = cacheKey(encFull(last), last.enc)
  /\ last.resp.status = 200 /\ last.resp.cenc = None
  /\ last.resp.body.path = fullOf(last)


\* ------------------------------------------------------------- prewarm ceilings
\* Static mode under several size and file-count ceilings; the startup alone.
PrewarmOptions ==
  [prewarmEnable : {TRUE}, preCompressed : {TRUE}, useETag : {TRUE},
   maxSize : {1, 2, 5}, overshoot : {0, 2}, prewarmMaxFiles : 1..3,
   traffic : {"plain"}, conc : {1}]
InitPrewarm == InitWith(PrewarmOptions)
NextPrewarm == Environment \/ prewarmStat \/ prewarmRead
SpecPrewarm == InitPrewarm /\ [][NextPrewarm]_vars

\* Position of a file in the traversal
FileIndex(p) == CHOOSE i \in 1..Len(FileList) : FileList[i] = p

Headers(resp) ==
  [status |-> resp.status, etag |-> resp.etag, ctype |-> resp.ctype, cenc |-> resp.cenc,
   cc |-> resp.cc, vary |-> resp.vary, custom |-> resp.custom,
   crange |-> resp.crange, clen |-> resp.clen]

\* C28: in every state in which a request can arrive, and for every path and
\* choice of request headers, the HEAD request gets the status and the headers
\* the GET request gets in that state, and no body.
C28_HeadMirrorsGet ==
  \A r \in Reqs :
    (/\ Serving /\ InFlight = {} /\ req[r].pc = "idle"
     /\ \A q \in Reqs : q < r => req[q].pc # "idle")
    => \A p \in ReqPaths, ae \in AcceptEncodings, hd \in HeaderChoices :
         LET enc == encoding(cfg.preCompressed, ae)
             get == answer(World, fs, arrive(req[r], "GET", p, enc, hd), now + 1)
             head == answer(World, fs, arrive(req[r], "HEAD", p, enc, hd), now + 1)
         IN  Headers(head) = Headers(get) /\ head.body = NoSlice


\* C29: every cached entry, whether prewarm, a miss or a refresh created it,
\* has a size equal to the length of the content stored in it, whatever was
\* written or removed while it was loaded.
C29_SizeIsContentLength ==
  \A id \in CacheIds(cache) : heap[id].size = heap[id].body.len


\* ------------------------------------------------------------- etag: false
\* Dynamic mode with ETag generation disabled, one request at a time, with
\* conditional and range headers.
NoETagOptions ==
  [prewarmEnable : {FALSE}, preCompressed : {TRUE}, useETag : {FALSE},
   maxSize : {1}, overshoot : {2}, prewarmMaxFiles : {2},
   traffic : {"http"}, conc : {1}]
InitNoETag == InitWith(NoETagOptions)
SpecNoETag == InitNoETag /\ [][Next]_vars

\* C30: with ETag generation disabled every cached entry still carries a
\* validator, and every 200 response carries it in its ETag header.
C30_ValidatorWithoutETag ==
  ~cfg.useETag =>
    /\ \A id \in CacheIds(cache) : heap[id].etag # NoTag
    /\ (last.pc = "done" /\ last.resp.status = 200) => last.resp.etag # NoTag


\* C31: with ETag generation enabled, every 200 response to a GET carries an
\* ETag header, whatever requests came before it.
C31_GetCarriesETag ==
  (cfg.useETag /\ last.pc = "done" /\ last.method = "GET" /\ last.resp.status = 200)
  => last.resp.etag # NoTag


\* C32: in dynamic mode a cached entry whose recorded modification time is
\* the current one of its file holds the current content of that file.
C32_CurrentTimeCurrentContent ==
  devMode =>
    \A id \in CacheIds(cache) :
      LET e == heap[id]
          f == fs[e.body.path]
      IN  (f.ex /\ e.mtimeMs = f.ver) => e.body.ver = f.ver


\* C33: the body of a 200 response is never read from a file whose path
\* matches an ignore pattern, the negotiated variant's path included.
C33_IgnoredNeverServed ==
  (probe.pc = "out" /\ probe.out.status = 200) => ~ignore(probe.o, probe.out.body)


\* C34: no file on disk is the body of two live cache entries (one under its
\* own path, one under the negotiated path-plus-encoding key).
C34_OneEntryPerFile ==
  \A i, j \in CacheIds(cache) : i # j => heap[i].body.path # heap[j].body.path


\* Dynamic mode with cacheOvershootSize equal to cacheMaxSize, plain GET
\* requests one at a time.
TightOptions ==
  [prewarmEnable : {FALSE}, preCompressed : {TRUE}, useETag : {TRUE},
   maxSize : {1}, overshoot : {1}, prewarmMaxFiles : {2},
   traffic : {"plain"}, conc : {1}]
InitTight == InitWith(TightOptions)
SpecTight == InitTight /\ [][Next]_vars

\* The request just answered was answered by a miss-load that inserted an entry.
Inserted ==
  last.pc = "done" /\ last.resp.via \in {"cmiss", "smiss"} /\ last.resp.from # NoId

\* C35: when a miss-load has inserted an entry that does not by itself exceed
\* maxSize, the entry is still in the cache when the insertion returns: the
\* eviction pass it triggered has not removed it.
C35_NewEntrySurvives ==
  (Inserted /\ last.resp.written.size <= cfg.maxSize)
    => last.resp.from \in CacheIds(cache)
====
